---- MODULE Spec2Model ----
(***************************************************************************)
(* Symbolic executor of symbolicexecutor.py: SymbolicExecutionState, the   *)
(* jump and assert handlers of SymbolicExecutor, and the worklist loop of  *)
(* SymbolicExecutor.run, over a bounded family of loop-free programs.      *)
(***************************************************************************)
EXTENDS Integers, Sequences, FiniteSets, TLC

\* Integer literals of the programs range over 0..MaxConst.
MaxConst == 1

\* Memory cells of the programs are numbered 1..NumVars (1 is x, 2 is y).
NumVars == 2
VarIds == 1..NumVars

(***************************************************************************)
(* The IR the executor consumes (language.py): operands and instructions.  *)
(***************************************************************************)
IntLit(n) == [k |-> "int", v |-> n]
BoolLit(b) == [k |-> "bool", v |-> IF b THEN 1 ELSE 0]
Ins(i) == [k |-> "instr", v |-> i]
Var(i) == [k |-> "var", v |-> i]
Block(i) == [k |-> "block", v |-> i]
NoOperand == [k |-> "none", v |-> 0]

\* pc of a state whose next instruction does not exist (Python None).
NoInstr == 0

Instr(ty, pred, cond, ops, next) ==
    [ty |-> ty, pred |-> pred, cond |-> cond, ops |-> ops, next |-> next]

Load(var, next) == Instr("LOAD", "", NoOperand, <<Var(var)>>, next)
Store(val, var, next) == Instr("STORE", "", NoOperand, <<val, Var(var)>>, next)
Cmp(pred, a, b, next) == Instr("CMP", pred, NoOperand, <<a, b>>, next)
AssertI(cond, next) == Instr("ASSERT", "", cond, <<>>, next)
Jump(cond, thn, els) == Instr("JUMP", "", cond, <<Block(thn), Block(els)>>, NoInstr)
Halt == Instr("HALT", "", NoOperand, <<>>, NoInstr)

(***************************************************************************)
(* z3 terms and the answers of Solver.check.                               *)
(***************************************************************************)
None == [tag |-> "None"]
PyTrue == [tag |-> "PyBool", b |-> TRUE]
BoolVal(b) == [tag |-> "BoolVal", b |-> b]
IntVal(i) == [tag |-> "IntVal", i |-> i]
Z3Int(name) == [tag |-> "Int", name |-> name]
CmpTerm(pred, l, r) == [tag |-> "Cmp", pred |-> pred, l |-> l, r |-> r]
Not(t) == [tag |-> "Not", arg |-> t]

IsBoolTerm(t) == t.tag \in {"BoolVal", "Cmp", "Not"}

\* Values of the free integer variables that decide every conjunction of
\* comparisons of one variable against literals of 0..MaxConst.
Dom == (0 - 1)..(MaxConst + 1)
Assignments == [VarIds -> Dom]

Compare(pred, l, r) ==
    CASE pred = "<" -> l < r
      [] pred = "<=" -> l <= r
      [] pred = ">" -> l > r
      [] pred = ">=" -> l >= r
      [] pred = "==" -> l = r
      [] pred = "!=" -> l # r

EvalInt(t, a) == IF t.tag = "IntVal" THEN t.i ELSE a[t.name]

RECURSIVE EvalBool(_, _)
EvalBool(t, a) ==
    CASE t.tag \in {"PyBool", "BoolVal"} -> t.b
      [] t.tag = "Cmp" -> Compare(t.pred, EvalInt(t.l, a), EvalInt(t.r, a))
      [] t.tag = "Not" -> ~EvalBool(t.arg, a)

Models(path_cond) ==
    {a \in Assignments : \A i \in 1..Len(path_cond) : EvalBool(path_cond[i], a)}

\* What z3 decides for the conjunction.
check(path_cond) == IF Models(path_cond) # {} THEN "sat" ELSE "unsat"


(***************************************************************************)
(* SymbolicExecutionState.                                                 *)
(***************************************************************************)
EmptyMap == [i \in {} |-> None]
Put(m, key, val) == [i \in DOMAIN m \cup {key} |-> IF i = key THEN val ELSE m[i]]
Get(m, key) == IF key \in DOMAIN m THEN m[key] ELSE None

NoError == ""

\* Object identity.  A state is an object that refers to two dicts and a
\* list; ids holds the identity of the state object and of each of the three
\* containers.  New marks an object that has just been made: it gets its own
\* number when the step that made it ends.  The list a fork assigns to
\* path_cond is the one getExtendedPathCond made for that one state.
New == 0
NewIds == [obj |-> New, variables |-> New, values |-> New, path_cond |-> New]

NewState(pc) ==
    [pc |-> pc, variables |-> EmptyMap, values |-> EmptyMap,
     path_cond |-> <<PyTrue>>, error |-> NoError, ids |-> NewIds]

\* copy that leaves the maps of the new state empty.
copy_FreshMaps(s) ==
    [pc |-> s.pc, variables |-> EmptyMap, values |-> EmptyMap,
     path_cond |-> s.path_cond, error |-> s.error, ids |-> NewIds]

\* copy that assigns the values dict instead of copying it.
copy_SharesValues(s) ==
    [pc |-> s.pc, variables |-> s.variables, values |-> s.values,
     path_cond |-> s.path_cond, error |-> s.error,
     ids |-> [NewIds EXCEPT !.values = s.ids.values]]

copy(s) ==
    [pc |-> s.pc, variables |-> s.variables, values |-> s.values,
     path_cond |-> s.path_cond, error |-> s.error, ids |-> NewIds]

read(s, var) == Get(s.variables, var.v)
write(s, var, value) == [s EXCEPT !.variables = Put(@, var.v, value)]

eval(s, v) ==
    CASE v.k = "bool" -> BoolVal(v.v = 1)
      [] v.k = "int" -> IntVal(v.v)
      [] v.k = "instr" -> Get(s.values, v.v)

set(s, lhs, val) == [s EXCEPT !.values = Put(@, lhs, val)]

(***************************************************************************)
(* SymbolicExecutor.  program is the parsed program; stack,                *)
(* executed_paths and errors are the executor's fields; state is the local *)
(* of run; ctl is the position of run; last holds the instruction kind and *)
(* the two solver answers of the handler that ran last; output is what run *)
(* printed; solver is the decision procedure behind evalPathCond.  heap     *)
(* holds the identities: of the objects behind state and behind each       *)
(* element of stack, and the number of identities handed out.              *)
(* normal_terminations is a history counter: the number of times a path    *)
(* has ended without an error (the dispatcher returned None, or the        *)
(* continuation past an assert had no next instruction).                   *)
(***************************************************************************)
VARIABLES program, solver, stack, executed_paths, errors,
          normal_terminations, state, ctl, last, output, heap

vars == <<program, solver, stack, executed_paths, errors,
          normal_terminations, state, ctl, last, output, heap>>

\* evalPathCond: the answers Solver.check may give.  z3 decides the
\* conjunction or gives up ("z3"), or always decides it ("exact"); a stub
\* solver ("mock") may answer anything.
evalPathCond(path_cond) ==
    CASE solver = "z3" -> {check(path_cond), "unknown"}
      [] solver = "exact" -> {check(path_cond)}
      [] solver = "mock" -> {"sat", "unsat", "unknown"}

\* A state together with the identities of its object and containers, and
\* the state without them.
WithIds(st, ids) ==
    IF st = None THEN None
    ELSE [pc |-> st.pc, variables |-> st.variables, values |-> st.values,
          path_cond |-> st.path_cond, error |-> st.error, ids |-> ids]

Strip(obj) ==
    IF obj = None THEN None
    ELSE [pc |-> obj.pc, variables |-> obj.variables, values |-> obj.values,
          path_cond |-> obj.path_cond, error |-> obj.error]

IdsOf(obj) == IF obj = None THEN None ELSE obj.ids

\* The local state of run as an object.
Executing == WithIds(state, heap.state)

\* The executor object as the handlers see it.
Self ==
    [stack |-> [i \in 1..Len(stack) |-> WithIds(stack[i], heap.stack[i])],
     executed_paths |-> executed_paths, errors |-> errors]

NoException == ""
Returns(self, ret) == [self |-> self, ret |-> ret, exc |-> NoException]
Raises(self, st, exc) == [self |-> self, ret |-> st, exc |-> exc]

NotAsked == ""

\* Solver failures that return to the caller instead of raising.
solverError_Returns(self, st) == Returns(self, st)
solverErrorNoArg_Returns(self, st) == Returns(self, st)

\* solverError(path_cond) raises; called without its argument (lines 118
\* and 174) the call itself raises.
solverError(self, st) == Raises(self, st, "RuntimeError")
solverErrorNoArg(self, st) == Raises(self, st, "TypeError")

\* The unknown value goes unrecorded.
usingUnknownValue_NoError(st) == st

\* executeJump, line 92.
usingUnknownValue(st) == [st EXCEPT !.error = "Using unknown value"]

\* getJumpBlock that leaves the copied path condition as it was.
getJumpBlock_KeepsPathCond(st, path_cond, op_idx) ==
    LET jump == program[st.pc]
        pc_state == copy(st)
        successorblock == jump.ops[op_idx + 1]
    IN  [pc_state EXCEPT !.pc = successorblock.v]

getJumpBlock(st, path_cond, op_idx) ==
    LET jump == program[st.pc]
        pc_state == copy(st)
        successorblock == jump.ops[op_idx + 1]
    IN  [pc_state EXCEPT !.path_cond = path_cond, !.pc = successorblock.v]

\* queueJumpBlock that always queues the then block.
queueJumpBlock_ThenSide(self, st, path_cond, op_idx) ==
    LET jump == program[st.pc]
        pc_state == copy(st)
    IN  [self EXCEPT !.stack =
            Append(@, [pc_state EXCEPT !.path_cond = path_cond,
                                       !.pc = jump.ops[1].v])]

queueJumpBlock(self, st, path_cond, op_idx) ==
    [self EXCEPT !.stack = Append(@, getJumpBlock(st, path_cond, op_idx))]

\* getExtendedPathCond that puts the new conjunct in front.
getExtendedPathCond_Prepends(st, condval) == <<condval>> \o st.path_cond

getExtendedPathCond(st, condval) == Append(st.path_cond, condval)

\* executeJump that forks as soon as one polarity is satisfiable.
executeJump_ForksOnEither(self, st, cond_check, not_cond_check) ==
    LET jump == program[st.pc]
        condval == eval(st, jump.cond)
        path_cond == getExtendedPathCond(st, condval)
        not_path_cond == getExtendedPathCond(st, Not(condval))
    IN  IF condval = None
        THEN Returns(self, usingUnknownValue(st))
        ELSE IF ~IsBoolTerm(condval)
        THEN Raises(self, st, "AssertionError")
        ELSE IF cond_check = "unknown" \/ not_cond_check = "unknown"
        THEN solverError(self, st)
        ELSE IF cond_check = "sat" \/ not_cond_check = "sat"
        THEN Returns(queueJumpBlock(self, st, not_path_cond, 1),
                     getJumpBlock(st, path_cond, 0))
        ELSE solverErrorNoArg(self, st)

executeJump(self, st, cond_check, not_cond_check) ==
    LET jump == program[st.pc]
        condval == eval(st, jump.cond)
        path_cond == getExtendedPathCond(st, condval)
        not_path_cond == getExtendedPathCond(st, Not(condval))
    IN  IF condval = None
        THEN Returns(self, usingUnknownValue(st))
        ELSE IF ~IsBoolTerm(condval)
        THEN Raises(self, st, "AssertionError")
        ELSE IF cond_check = "unknown" \/ not_cond_check = "unknown"
        THEN solverError(self, st)
        ELSE IF cond_check = "sat" /\ not_cond_check = "sat"
        THEN Returns(queueJumpBlock(self, st, not_path_cond, 1),
                     getJumpBlock(st, path_cond, 0))
        ELSE IF cond_check = "sat"
        THEN Returns(self, getJumpBlock(st, path_cond, 0))
        ELSE IF not_cond_check = "sat"
        THEN Returns(self, getJumpBlock(st, not_path_cond, 1))
        ELSE solverErrorNoArg(self, st)

\* handleUninitVar that also stores the minted value in the cell.
handleUninitVar_WritesBack(st) ==
    LET instruction == program[st.pc]
        op == instruction.ops[1]
    IN  write(set(st, st.pc, Z3Int(op.v)), op, Z3Int(op.v))

handleUninitVar(st) ==
    LET instruction == program[st.pc]
        op == instruction.ops[1]
    IN  set(st, st.pc, Z3Int(op.v))

\* getNextState that leaves the copied path condition as it was.
getNextState_KeepsPathCond(st, path_cond) ==
    LET next_state == copy(st)
    IN  [next_state EXCEPT !.pc = program[next_state.pc].next]

getNextState(st, path_cond) ==
    LET next_state == copy(st)
    IN  [next_state EXCEPT !.path_cond = path_cond,
                           !.pc = program[next_state.pc].next]

\* queueNextState that does not count a continuation with no instruction left.
queueNextState_DropsEnded(self, st, path_cond) ==
    LET next_state == copy(st)
        nxt == program[next_state.pc].next
    IN  IF nxt # NoInstr
        THEN [self EXCEPT !.stack =
                 Append(@, [next_state EXCEPT !.path_cond = path_cond, !.pc = nxt])]
        ELSE self

\* queueNextState that puts the continuation whatever its pc.
queueNextState_PutsEnded(self, st, path_cond) ==
    [self EXCEPT !.stack = Append(@, getNextState(st, path_cond))]

queueNextState(self, st, path_cond) ==
    LET pc_state == getNextState(st, path_cond)
    IN  IF pc_state.pc # NoInstr
        THEN [self EXCEPT !.stack = Append(@, pc_state)]
        ELSE [self EXCEPT !.executed_paths = @ + 1]

\* incErrorPaths that counts the error only.
incErrorPaths_OnlyErrors(self) == [self EXCEPT !.errors = @ + 1]

incErrorPaths(self) ==
    [self EXCEPT !.errors = @ + 1, !.executed_paths = @ + 1]

assertError(st) == [st EXCEPT !.error = "Assertion failed"]

\* executeAssert that records the error before it queues the continuation.
executeAssert_ErrorFirst(self, st, cond_check, not_cond_check) ==
    LET instruction == program[st.pc]
        condval == eval(st, instruction.cond)
        path_cond == getExtendedPathCond(st, condval)
        not_path_cond == getExtendedPathCond(st, Not(condval))
    IN  IF condval = None
        THEN Raises(self, st, "NameError")
        ELSE IF ~IsBoolTerm(condval)
        THEN Raises(self, st, "AssertionError")
        ELSE IF cond_check = "unknown" \/ not_cond_check = "unknown"
        THEN solverError(self, st)
        ELSE IF cond_check = "sat" /\ not_cond_check = "sat"
        THEN Returns(queueNextState(self, assertError(st), path_cond),
                     assertError(st))
        ELSE IF not_cond_check = "sat"
        THEN Returns(self, assertError(st))
        ELSE IF cond_check = "unsat" /\ not_cond_check = "unsat"
        THEN solverErrorNoArg(self, st)
        ELSE Returns(self, st)

executeAssert(self, st, cond_check, not_cond_check) ==
    LET instruction == program[st.pc]
        condval == eval(st, instruction.cond)
        path_cond == getExtendedPathCond(st, condval)
        not_path_cond == getExtendedPathCond(st, Not(condval))
    IN  IF condval = None
        THEN Raises(self, st, "NameError")
        ELSE IF ~IsBoolTerm(condval)
        THEN Raises(self, st, "AssertionError")
        ELSE IF cond_check = "unknown" \/ not_cond_check = "unknown"
        THEN solverError(self, st)
        ELSE IF cond_check = "sat" /\ not_cond_check = "sat"
        THEN Returns(queueNextState(self, st, path_cond), assertError(st))
        ELSE IF not_cond_check = "sat"
        THEN Returns(self, assertError(st))
        ELSE IF cond_check = "unsat" /\ not_cond_check = "unsat"
        THEN solverErrorNoArg(self, st)
        ELSE Returns(self, st)

\* The solver answers a handler may see on st: a pair for the two queries of
\* a jump or an assert whose condition has a value, no answer otherwise.
Answers(st) ==
    LET instruction == program[st.pc]
        condval == eval(st, instruction.cond)
    IN  IF instruction.ty \in {"JUMP", "ASSERT"} /\ condval # None
           /\ IsBoolTerm(condval)
        THEN evalPathCond(getExtendedPathCond(st, condval))
                \X evalPathCond(getExtendedPathCond(st, Not(condval)))
        ELSE {<<NotAsked, NotAsked>>}

(***************************************************************************)
(* Interpreter.executeInstruction, the dispatcher the executor inherits:   *)
(* straight-line instructions change the state and advance pc, halt and    *)
(* the end of the program return None, jump and assert go to the handlers  *)
(* above.                                                                  *)
(***************************************************************************)
advance(st) ==
    IF st.error # NoError THEN st
    ELSE IF program[st.pc].next = NoInstr THEN None
    ELSE [st EXCEPT !.pc = program[st.pc].next]

executeMem(st) ==
    LET instruction == program[st.pc]
        op == instruction.ops[1]
    IN  IF instruction.ty = "LOAD"
        THEN IF read(st, op) = None
             THEN handleUninitVar(st)
             ELSE set(st, st.pc, read(st, op))
        ELSE IF eval(st, op) = None
             THEN [st EXCEPT !.error = "Using unknown value"]
             ELSE write(st, instruction.ops[2], eval(st, op))

executeCmp(st) ==
    LET instruction == program[st.pc]
        a == eval(st, instruction.ops[1])
        b == eval(st, instruction.ops[2])
    IN  IF a = None \/ b = None
        THEN [st EXCEPT !.error = "Using unknown value"]
        ELSE set(st, st.pc, CmpTerm(instruction.pred, a, b))

executeInstruction(self, st, cond_check, not_cond_check) ==
    LET ty == program[st.pc].ty
    IN  CASE ty = "JUMP" -> executeJump(self, st, cond_check, not_cond_check)
          [] ty = "HALT" -> Returns(self, None)
          [] ty = "ASSERT" ->
               LET r == executeAssert(self, st, cond_check, not_cond_check)
               IN  IF r.exc # NoException THEN r ELSE Returns(r.self, advance(r.ret))
          [] ty \in {"LOAD", "STORE"} -> Returns(self, advance(executeMem(st)))
          [] ty = "CMP" -> Returns(self, advance(executeCmp(st)))

(***************************************************************************)
(* The programs explored.  A condition is a comparison of a loaded value   *)
(* against a literal.                                                      *)
(***************************************************************************)
Preds == {"<", "<=", ">", ">=", "==", "!="}
Conds == Preds \X (0..MaxConst)

\* load x; assert x c1; assert x c2; halt (or the end of the program)
Chain(c1, c2, halts) ==
    <<Load(1, 2), Cmp(c1[1], Ins(1), IntLit(c1[2]), 3), AssertI(Ins(2), 4),
      Cmp(c2[1], Ins(1), IntLit(c2[2]), 5),
      AssertI(Ins(4), IF halts THEN 6 ELSE NoInstr)>>
    \o (IF halts THEN <<Halt>> ELSE <<>>)

\* load x; if x c1 then y := 1 else y := 0; assert y c2; halt
Diamond(c1, c2) ==
    <<Load(1, 2), Cmp(c1[1], Ins(1), IntLit(c1[2]), 3), Jump(Ins(2), 4, 6),
      Store(IntLit(1), 2, 5), Jump(BoolLit(TRUE), 8, 8),
      Store(IntLit(0), 2, 7), Jump(BoolLit(TRUE), 8, 8),
      Load(2, 9), Cmp(c2[1], Ins(8), IntLit(c2[2]), 10), AssertI(Ins(9), 11),
      Halt>>

\* load x; assert x c1; if x c2 then halt else y := 0 (end of the program)
Guarded(c1, c2) ==
    <<Load(1, 2), Cmp(c1[1], Ins(1), IntLit(c1[2]), 3), AssertI(Ins(2), 4),
      Cmp(c2[1], Ins(1), IntLit(c2[2]), 5), Jump(Ins(4), 6, 7),
      Halt, Store(IntLit(0), 2, NoInstr)>>

\* x := k; load x; assert x c; halt
Straight(k, c) ==
    <<Store(IntLit(k), 1, 2), Load(1, 3), Cmp(c[1], Ins(2), IntLit(c[2]), 4),
      AssertI(Ins(3), 5), Halt>>

\* if b then halt else halt
LitJump(b) == <<Jump(BoolLit(b), 2, 3), Halt, Halt>>

\* load x; if x c1 then (use of the value of instruction 6, which has not
\* run) else (instruction 6); halt on both sides
UsesUnknown == {Jump(Ins(6), 5, 5), AssertI(Ins(6), 5)}

Malformed(c1, use) ==
    <<Load(1, 2), Cmp(c1[1], Ins(1), IntLit(c1[2]), 3), Jump(Ins(2), 4, 6),
      use, Halt, Cmp("==", Ins(1), IntLit(0), 7), Halt>>

\* load x; if x c1 then (assert x c2; halt) else halt
Nested(c1, c2) ==
    <<Load(1, 2), Cmp(c1[1], Ins(1), IntLit(c1[2]), 3), Jump(Ins(2), 4, 7),
      Cmp(c2[1], Ins(1), IntLit(c2[2]), 5), AssertI(Ins(4), 6), Halt, Halt>>

Programs ==
    {Chain(c1, c2, h) : c1 \in Conds, c2 \in Conds, h \in BOOLEAN}
    \cup {Diamond(c1, c2) : c1 \in Conds, c2 \in Conds}
    \cup {Guarded(c1, c2) : c1 \in Conds, c2 \in Conds}
    \cup {Nested(c1, c2) : c1 \in Conds, c2 \in Conds}
    \cup {Straight(k, c) : k \in 0..MaxConst, c \in Conds}
    \cup {LitJump(b) : b \in BOOLEAN}
    \cup {Malformed(c1, u) : c1 \in Conds, u \in UsesUnknown}
    \cup {<<Halt>>}

(***************************************************************************)
(* SymbolicExecutor.__init__ and run.                                      *)
(***************************************************************************)
NoLast == [ty |-> "", cond_check |-> NotAsked, not_cond_check |-> NotAsked]

InitWith(sv) ==
    /\ program \in Programs
    /\ solver = sv
    /\ stack = <<>>
    /\ executed_paths = 0
    /\ errors = 0
    /\ normal_terminations = 0
    /\ state = None
    /\ ctl = "start"
    /\ last = NoLast
    /\ output = <<>>
    /\ heap = [state |-> None, stack |-> <<>>, allocated |-> 0]

Init == InitWith("z3")

\* Every object made in a step gets identities of its own.
Fresh(id, n) == IF id = New THEN n ELSE id

Number(obj, base) ==
    IF obj = None THEN None
    ELSE [obj EXCEPT !.ids =
             [obj |-> Fresh(@.obj, base + 1),
              variables |-> Fresh(@.variables, base + 2),
              values |-> Fresh(@.values, base + 3),
              path_cond |-> Fresh(@.path_cond, base + 4)]]

\* Reference semantics: a container that obj and the state just executed both
\* refer to has one content, and one object behind two names is one state.
Shared(obj, by) ==
    IF by = None THEN obj
    ELSE IF obj.ids.obj = by.ids.obj THEN by
    ELSE [obj EXCEPT
             !.variables = IF obj.ids.variables = by.ids.variables
                           THEN by.variables ELSE @,
             !.values = IF obj.ids.values = by.ids.values
                        THEN by.values ELSE @,
             !.path_cond = IF obj.ids.path_cond = by.ids.path_cond
                           THEN by.path_cond ELSE @]

\* The executor's fields and the local state after a step that left the
\* executor as self and the state as ret.
SetSelf(self, ret) ==
    LET size == Cardinality(DOMAIN NewIds)
        made == Len(self.stack) - Len(stack)
        current == Number(ret, heap.allocated)
        numbered(i) ==
            IF i <= Len(stack) THEN self.stack[i]
            ELSE Number(self.stack[i], heap.allocated + (i - Len(stack)) * size)
        objs == [i \in 1..Len(self.stack) |-> Shared(numbered(i), current)]
    IN  /\ stack' = [i \in 1..Len(objs) |-> Strip(objs[i])]
        /\ state' = Strip(current)
        /\ heap' = [state |-> IdsOf(current),
                    stack |-> [i \in 1..Len(objs) |-> objs[i].ids],
                    allocated |-> heap.allocated + (made + 1) * size]
        /\ executed_paths' = self.executed_paths
        /\ errors' = self.errors

\* History: the continuation past an assert, feasible next to an error
\* witness, ended the path because the assert has no next instruction.
ContinuationEnded(st, ans, r) ==
    /\ program[st.pc].ty = "ASSERT"
    /\ r.exc = NoException
    /\ ans = <<"sat", "sat">>
    /\ program[st.pc].next = NoInstr

\* run, lines 178-180: the entry state goes on the stack.
Start ==
    /\ ctl = "start"
    /\ SetSelf([Self EXCEPT !.stack = Append(@, NewState(1))], Executing)
    /\ ctl' = "loop"
    /\ UNCHANGED <<program, solver, normal_terminations, last, output>>

\* A queue that gives back the state put first.
stackGet_Fifo(stk) == [item |-> stk[1], rest |-> SubSeq(stk, 2, Len(stk))]

\* LifoQueue.get: the most recently put state is taken.
stackGet(stk) ==
    [item |-> stk[Len(stk)], rest |-> SubSeq(stk, 1, Len(stk) - 1)]

\* run, lines 182-183.
Pop ==
    /\ ctl = "loop"
    /\ stack # <<>>
    /\ state' = stackGet(stack).item
    /\ stack' = stackGet(stack).rest
    /\ heap' = [heap EXCEPT !.state = stackGet(heap.stack).item,
                            !.stack = stackGet(heap.stack).rest]
    /\ ctl' = "exec"
    /\ UNCHANGED <<program, solver, executed_paths, errors,
                   normal_terminations, last, output>>

\* run, line 186: executeInstruction on the state, with the answers the
\* solver gives; an exception leaves run.
Dispatch ==
    \E ans \in Answers(state) :
        LET r == executeInstruction(Self, Executing, ans[1], ans[2])
        IN  /\ SetSelf(r.self, r.ret)
            /\ ctl' = IF r.exc # NoException THEN "crashed" ELSE "check"
            /\ last' = [ty |-> program[state.pc].ty, cond_check |-> ans[1],
                        not_cond_check |-> ans[2]]
            /\ normal_terminations' =
                   IF ContinuationEnded(state, ans, r)
                   THEN normal_terminations + 1 ELSE normal_terminations
            /\ UNCHANGED <<program, solver, output>>

At(ty) == ctl = "exec" /\ program[state.pc].ty = ty

ExecLoad ==
    /\ At("LOAD")
    /\ Dispatch

ExecStore ==
    /\ At("STORE")
    /\ Dispatch

ExecCmp ==
    /\ At("CMP")
    /\ Dispatch

ExecAssert ==
    /\ At("ASSERT")
    /\ Dispatch

ExecJump ==
    /\ At("JUMP")
    /\ Dispatch

ExecHalt ==
    /\ At("HALT")
    /\ Dispatch

\* A loop that puts a state that can go on back on the stack.
driverCheck_Requeues(self, st) ==
    IF st = None
    THEN [self EXCEPT !.executed_paths = @ + 1]
    ELSE IF st.error # NoError THEN incErrorPaths(self)
    ELSE [self EXCEPT !.stack = Append(@, st)]

\* run, lines 187-193: what the loop does with the state that came back.
driverCheck(self, st) ==
    IF st = None
    THEN [self EXCEPT !.executed_paths = @ + 1]
    ELSE IF st.error # NoError THEN incErrorPaths(self)
    ELSE self

Check ==
    /\ ctl = "check"
    /\ SetSelf(driverCheck(Self, Executing), Executing)
    /\ normal_terminations' =
           IF state = None THEN normal_terminations + 1 ELSE normal_terminations
    /\ ctl' = IF state = None \/ state.error # NoError THEN "loop" ELSE "exec"
    /\ UNCHANGED <<program, solver, last, output>>

\* run, lines 195-196: the counts are printed once the stack is empty.
Finish ==
    /\ ctl = "loop"
    /\ stack = <<>>
    /\ output' = <<executed_paths, errors>>
    /\ ctl' = "done"
    /\ UNCHANGED <<program, solver, stack, executed_paths, errors,
                   normal_terminations, state, last, heap>>

Next ==
    \/ Start
    \/ Pop
    \/ ExecLoad
    \/ ExecStore
    \/ ExecCmp
    \/ ExecAssert
    \/ ExecJump
    \/ ExecHalt
    \/ Check
    \/ Finish

Spec == Init /\ [][Next]_vars

\* The same executor over a stub solver that may answer anything.
InitMock == InitWith("mock")
SpecMock == InitMock /\ [][Next]_vars

\* The executor over a solver that decides every query, with every step of
\* run taken as long as one is possible.
InitExact == InitWith("exact")
SpecLive == InitExact /\ [][Next]_vars /\ WF_vars(Next)

(***************************************************************************)
(* Reference semantics: the program run on concrete inputs.  a gives the   *)
(* value each uninitialized cell is read as; a run is the sequence of      *)
(* <<instruction, decision>> it went through and how it ended.             *)
(***************************************************************************)
Known(cvals, op) == op.k \in {"int", "bool"} \/ op.v \in DOMAIN cvals
ValueOf(cvals, op) == IF op.k \in {"int", "bool"} THEN op.v ELSE cvals[op.v]
Truth(b) == IF b THEN 1 ELSE 0

RECURSIVE ConcreteRun(_, _, _, _, _)
ConcreteRun(i, a, cvars, cvals, trace) ==
    LET ins == program[i]
        Ended(how) == [trace |-> Append(trace, <<i, 0>>), outcome |-> how]
        Continue(to, d, nvars, nvals) ==
            IF to = NoInstr
            THEN [trace |-> Append(trace, <<i, d>>), outcome |-> "terminated"]
            ELSE ConcreteRun(to, a, nvars, nvals, Append(trace, <<i, d>>))
    IN  CASE ins.ty = "HALT" -> Ended("terminated")
          [] ins.ty = "LOAD" ->
               LET cell == ins.ops[1].v
                   v == IF cell \in DOMAIN cvars THEN cvars[cell] ELSE a[cell]
               IN  Continue(ins.next, 0, cvars, Put(cvals, i, v))
          [] ins.ty = "STORE" ->
               IF ~Known(cvals, ins.ops[1]) THEN Ended("unknown value")
               ELSE Continue(ins.next, 0,
                             Put(cvars, ins.ops[2].v, ValueOf(cvals, ins.ops[1])),
                             cvals)
          [] ins.ty = "CMP" ->
               IF ~Known(cvals, ins.ops[1]) \/ ~Known(cvals, ins.ops[2])
               THEN Ended("unknown value")
               ELSE Continue(ins.next, 0, cvars,
                             Put(cvals, i,
                                 Truth(Compare(ins.pred, ValueOf(cvals, ins.ops[1]),
                                               ValueOf(cvals, ins.ops[2])))))
          [] ins.ty = "ASSERT" ->
               IF ~Known(cvals, ins.cond) THEN Ended("unknown value")
               ELSE IF ValueOf(cvals, ins.cond) = 0 THEN Ended("assertion failed")
               ELSE Continue(ins.next, 1, cvars, cvals)
          [] ins.ty = "JUMP" ->
               IF ~Known(cvals, ins.cond) THEN Ended("unknown value")
               ELSE IF ValueOf(cvals, ins.cond) = 1
               THEN Continue(ins.ops[1].v, 1, cvars, cvals)
               ELSE Continue(ins.ops[2].v, 0, cvars, cvals)

ConcreteRuns == {ConcreteRun(1, a, EmptyMap, EmptyMap, <<>>) : a \in Assignments}
RunsEnding(how) == Cardinality({r \in ConcreteRuns : r.outcome = how})

(***************************************************************************)
(* The properties.  CondVal, Hold and Viol are the value of the condition  *)
(* of the instruction state is at and the two path conditions its handler  *)
(* asks the solver about.                                                  *)
(***************************************************************************)
CondVal == eval(state, program[state.pc].cond)
Hold == Append(state.path_cond, CondVal)
Viol == Append(state.path_cond, Not(CondVal))
Feasible(path_cond) == check(path_cond) = "sat"
NextOf(st) == program[st.pc].next
ThenOf(st) == program[st.pc].ops[1].v
ElseOf(st) == program[st.pc].ops[2].v
Top(stk) == stk[Len(stk)]
SameCounts == executed_paths' = executed_paths /\ errors' = errors

\* C1: in every state of run, executed_paths is the number of normal
\* terminations counted so far plus errors, and errors <= executed_paths;
\* every step that increments errors increments it by one and increments
\* executed_paths by exactly one with it.
C1_PathAccounting ==
    /\ [](/\ executed_paths = normal_terminations + errors
          /\ errors <= executed_paths)
    /\ [][errors' # errors =>
            /\ errors' = errors + 1
            /\ executed_paths' = executed_paths + 1]_vars

\* A finished run that counted an error path and a normal termination.
C1_Witness ==
    /\ ctl = "done"
    /\ errors >= 1
    /\ normal_terminations >= 1
    /\ executed_paths = normal_terminations + errors

\* C2 as stated: when run finishes, errors is the number of (feasible path
\* prefix, assert) pairs whose assert can fail, and executed_paths is errors
\* plus the number of feasible paths that reach halt or the end of the program.
C2_AsStated ==
    ctl = "done" =>
        /\ errors = RunsEnding("assertion failed")
        /\ executed_paths = errors + RunsEnding("terminated")

\* C2, amended: when run finishes, errors is the number of (feasible path
\* prefix, assert) pairs whose assert can fail plus the number of feasible
\* path prefixes that end in a "using unknown value" error, and
\* executed_paths is errors plus the number of feasible paths that reach
\* halt or the end of the program; these are the counts printed.
C2_PathCounts ==
    ctl = "done" =>
        /\ errors = RunsEnding("assertion failed") + RunsEnding("unknown value")
        /\ executed_paths = errors + RunsEnding("terminated")
        /\ output = <<executed_paths, errors>>

\* A finished run of two chained asserts: two error witnesses and one
\* surviving path, printed as 3 / 2.
C2_Witness ==
    /\ ctl = "done"
    /\ output = <<3, 2>>
    /\ RunsEnding("assertion failed") = 2
    /\ RunsEnding("terminated") = 1

\* C3: a jump whose condition is satisfiable in both polarities pushes exactly
\* one state, at the first instruction of the else block with path_cond
\* P ++ [Not(cv)], and the state that goes on is at the first instruction of
\* the then block with path_cond P ++ [cv]; both keep the variables and values
\* of the state before the jump.
C3_JumpFork ==
    [][(/\ At("JUMP")
        /\ CondVal # None
        /\ Feasible(Hold)
        /\ Feasible(Viol)
        /\ ctl' = "check")
       => /\ stack' = Append(stack,
                        [pc |-> ElseOf(state), variables |-> state.variables,
                         values |-> state.values, path_cond |-> Viol,
                         error |-> NoError])
          /\ state' = [pc |-> ThenOf(state), variables |-> state.variables,
                       values |-> state.values, path_cond |-> Hold,
                       error |-> NoError]
          /\ SameCounts]_vars

\* A fork just happened: the state going on and the state on top of the stack
\* differ in the polarity of the last conjunct, and carry a loaded value.
C3_Witness ==
    /\ ctl = "check"
    /\ last = [ty |-> "JUMP", cond_check |-> "sat", not_cond_check |-> "sat"]
    /\ stack # <<>>
    /\ state # None
    /\ Len(state.path_cond) >= 2
    /\ Top(stack).path_cond[Len(state.path_cond)]
          = Not(state.path_cond[Len(state.path_cond)])
    /\ Top(stack).values = state.values
    /\ DOMAIN state.values # {}
    /\ Top(stack).pc # state.pc

\* C4: a jump with exactly one satisfiable polarity pushes nothing and goes on
\* into the feasible block only: the then block with P ++ [cv] if the negation
\* is unsatisfiable, the else block with P ++ [Not(cv)] if the condition is;
\* it counts no path.
C4_JumpOneSide ==
    [][(/\ At("JUMP")
        /\ CondVal # None
        /\ Feasible(Hold) # Feasible(Viol)
        /\ ctl' = "check")
       => /\ stack' = stack
          /\ SameCounts
          /\ state' = [state EXCEPT
                         !.pc = IF Feasible(Hold) THEN ThenOf(state)
                                ELSE ElseOf(state),
                         !.path_cond = IF Feasible(Hold) THEN Hold ELSE Viol]]_vars

\* A jump on a loaded value went into its else block alone, under a path
\* condition that an earlier assert had extended.
C4_Witness ==
    /\ ctl = "check"
    /\ last = [ty |-> "JUMP", cond_check |-> "unsat", not_cond_check |-> "sat"]
    /\ state # None
    /\ Len(state.path_cond) >= 3
    /\ state.path_cond[Len(state.path_cond)].tag = "Not"
    /\ stack = <<>>

\* C5: an assert whose condition and negation are both satisfiable yields one
\* continuation and one error: a copy with path_cond P ++ [cv] at the next
\* instruction is pushed (or, with no next instruction, executed_paths grows
\* by one), the state records the failed assertion, and the driver counts it
\* as one error path and executes it no further.
C5_AssertBothFeasible ==
    [][/\ (/\ At("ASSERT")
           /\ CondVal # None
           /\ Feasible(Hold)
           /\ Feasible(Viol)
           /\ ctl' = "check")
          => /\ IF NextOf(state) # NoInstr
                THEN /\ stack' = Append(stack, [state EXCEPT !.path_cond = Hold,
                                                            !.pc = NextOf(state)])
                     /\ executed_paths' = executed_paths
                ELSE /\ stack' = stack
                     /\ executed_paths' = executed_paths + 1
             /\ errors' = errors
             /\ state' # None
             /\ state'.error = "Assertion failed"
             /\ state'.path_cond = state.path_cond
             /\ state'.variables = state.variables
             /\ state'.values = state.values
       /\ (/\ ctl = "check"
           /\ state # None
           /\ state.error = "Assertion failed")
          => /\ errors' = errors + 1
             /\ executed_paths' = executed_paths + 1
             /\ stack' = stack
             /\ ctl' = "loop"]_vars

\* The driver has counted the error of such an assert while its continuation
\* waits on the stack.
C5_Witness ==
    /\ ctl = "loop"
    /\ last = [ty |-> "ASSERT", cond_check |-> "sat", not_cond_check |-> "sat"]
    /\ state # None
    /\ state.error = "Assertion failed"
    /\ errors >= 1
    /\ stack # <<>>
    /\ Top(stack).error = NoError
    /\ Top(stack).pc = NextOf(state)
    /\ Top(stack).path_cond = Append(state.path_cond, eval(state, program[state.pc].cond))

\* C6 as stated: whenever the condition of an assert is satisfiable under P,
\* the successor with path_cond P ++ [cv] at the next instruction is pushed,
\* or the path is counted as terminated if there is no next instruction.
C6_AsStated ==
    [][(/\ At("ASSERT")
        /\ CondVal # None
        /\ Feasible(Hold)
        /\ ctl' = "check")
       => IF NextOf(state) # NoInstr
          THEN stack' = Append(stack, [state EXCEPT !.path_cond = Hold,
                                                   !.pc = NextOf(state)])
          ELSE executed_paths' = executed_paths + 1 \/ state' = None]_vars

\* C6, amended: when the condition of an assert is satisfiable under P, the
\* successor with path_cond P ++ [cv] at the next instruction is pushed (or
\* counted as terminated if there is no next instruction) only if the negation
\* is satisfiable too; if the negation is unsatisfiable nothing is pushed and
\* the state itself goes on to the next instruction with path_cond P unchanged
\* (or ends the path if there is no next instruction).
C6_AssertHolds ==
    [][(/\ At("ASSERT")
        /\ CondVal # None
        /\ Feasible(Hold)
        /\ ctl' = "check")
       => IF Feasible(Viol)
          THEN IF NextOf(state) # NoInstr
               THEN /\ stack' = Append(stack, [state EXCEPT !.path_cond = Hold,
                                                           !.pc = NextOf(state)])
                    /\ executed_paths' = executed_paths
               ELSE /\ stack' = stack
                    /\ executed_paths' = executed_paths + 1
          ELSE /\ stack' = stack
               /\ SameCounts
               /\ state' = IF NextOf(state) # NoInstr
                           THEN [state EXCEPT !.pc = NextOf(state)]
                           ELSE None]_vars

\* An assert that cannot fail was passed: the state went on with the path
\* condition it had, and nothing was pushed.
C6_Witness ==
    /\ ctl = "check"
    /\ last = [ty |-> "ASSERT", cond_check |-> "sat", not_cond_check |-> "unsat"]
    /\ state # None
    /\ state.error = NoError
    /\ state.path_cond = <<PyTrue>>
    /\ DOMAIN state.variables # {}
    /\ stack = <<>>

\* C7: if the solver answers unknown to either query of a jump or an assert,
\* the exploration aborts: nothing is pushed, advanced or counted, no further
\* state is popped or executed, and the counts are never printed.
C7_UnknownIsFatal ==
    [][/\ (/\ ctl = "exec"
           /\ "unknown" \in {last'.cond_check, last'.not_cond_check})
          => /\ ctl' = "crashed"
             /\ stack' = stack
             /\ state' = state
             /\ SameCounts
             /\ output' = <<>>
       /\ ctl # "crashed"]_vars

\* The solver gave up on the second query of a jump or assert while a state
\* was waiting on the stack; it stays there.
C7_Witness ==
    /\ ctl = "crashed"
    /\ last.cond_check = "sat"
    /\ last.not_cond_check = "unknown"
    /\ stack # <<>>
    /\ output = <<>>

\* C8: if both polarities of the condition of a jump or an assert are unsat,
\* the exploration aborts: the state is neither advanced, nor pushed, nor
\* counted as an executed or error path.
C8_BothUnsatIsFatal ==
    [][/\ (/\ ctl = "exec"
           /\ last'.cond_check = "unsat"
           /\ last'.not_cond_check = "unsat")
          => /\ ctl' = "crashed"
             /\ stack' = stack
             /\ state' = state
             /\ SameCounts
             /\ output' = <<>>
       /\ ctl # "crashed"]_vars

\* A jump got unsat for both polarities and the run stopped with its state
\* where it was.
C8_Witness ==
    /\ ctl = "crashed"
    /\ last = [ty |-> "JUMP", cond_check |-> "unsat", not_cond_check |-> "unsat"]
    /\ state # None
    /\ program[state.pc].ty = "JUMP"
    /\ state.error = NoError

\* C9 as stated: an assert whose condition has no value records a "using
\* unknown value" error on the state and returns it, so that the driver counts
\* one error path and goes on with the stack; the exploration does not crash.
C9_AsStated ==
    [][(/\ At("ASSERT")
        /\ CondVal = None)
       => /\ ctl' = "check"
          /\ state' = [state EXCEPT !.error = "Using unknown value"]
          /\ stack' = stack]_vars

\* C10: a jump whose condition has no value asks the solver nothing, pushes
\* nothing, and returns the state with the error "using unknown value" and pc
\* and path_cond unchanged; the driver then adds one to errors and to
\* executed_paths and goes on with the next state of the stack.
C10_JumpUnknownValue ==
    [][/\ (/\ At("JUMP")
           /\ CondVal = None)
          => /\ last'.cond_check = NotAsked
             /\ last'.not_cond_check = NotAsked
             /\ stack' = stack
             /\ SameCounts
             /\ state' = [state EXCEPT !.error = "Using unknown value"]
             /\ ctl' = "check"
       /\ (/\ ctl = "check"
           /\ state # None
           /\ state.error = "Using unknown value")
          => /\ errors' = errors + 1
             /\ executed_paths' = executed_paths + 1
             /\ stack' = stack
             /\ ctl' = "loop"
       /\ (/\ ctl = "loop"
           /\ state # None
           /\ state.error = "Using unknown value"
           /\ stack # <<>>)
          => /\ ctl' = "exec"
             /\ state' = Top(stack)]_vars

\* After such a jump was counted as an error path, the driver has taken the
\* else side of the earlier fork from the stack.
C10_Witness ==
    /\ ctl = "exec"
    /\ last = [ty |-> "JUMP", cond_check |-> NotAsked, not_cond_check |-> NotAsked]
    /\ errors = 1
    /\ executed_paths = 1
    /\ state # None
    /\ state.error = NoError
    /\ state.path_cond[Len(state.path_cond)].tag = "Not"

\* C11: every state on the worklist, and so every state popped from it, has
\* a satisfiable path condition.
C11_FeasibleOnWorklist ==
    /\ \A i \in 1..Len(stack) : Feasible(stack[i].path_cond)
    /\ (ctl = "exec" => Feasible(state.path_cond))

\* Two states wait on the worklist, each under a path condition that a jump
\* and an assert have extended.
C11_Witness ==
    /\ Len(stack) = 2
    /\ \A i \in 1..2 : Len(stack[i].path_cond) >= 2 /\ Feasible(stack[i].path_cond)
    /\ Len(stack[2].path_cond) = 3

\* C13: no state with an error is ever on the worklist.
C13_NoErrorOnWorklist == \A i \in 1..Len(stack) : stack[i].error = NoError

\* An assert that can both hold and fail has run on the then side of a fork:
\* its state carries the error, and its continuation, pushed on top of the
\* else side, carries none.
C13_Witness ==
    /\ ctl = "check"
    /\ last = [ty |-> "ASSERT", cond_check |-> "sat", not_cond_check |-> "sat"]
    /\ state # None
    /\ state.error = "Assertion failed"
    /\ Len(stack) = 2
    /\ stack[2].error = NoError
    /\ stack[2].values = state.values

IsPrefix(p, q) == Len(p) <= Len(q) /\ SubSeq(q, 1, Len(p)) = p
GrowsByAtMostOne(p, q) == IsPrefix(p, q) /\ Len(q) <= Len(p) + 1
PathConds(stk, st) ==
    {stk[i].path_cond : i \in 1..Len(stk)}
        \cup (IF st = None THEN {} ELSE {st.path_cond})

\* C14: along a path, path_cond changes only by appending one element at a
\* time: the state an instruction step returns and every state it pushes have
\* the path_cond of the executed state as a prefix, with at most one element
\* more; no other step changes a path_cond; and the first element of every
\* path_cond is the constant True.
C14_PathCondMonotone ==
    /\ [](\A p \in PathConds(stack, state) : Len(p) >= 1 /\ p[1] = PyTrue)
    /\ [][IF ctl = "exec"
          THEN /\ state' # None
                  => GrowsByAtMostOne(state.path_cond, state'.path_cond)
               /\ Len(stack') >= Len(stack)
               /\ \A i \in 1..Len(stack') :
                     IF i <= Len(stack)
                     THEN stack'[i] = stack[i]
                     ELSE GrowsByAtMostOne(state.path_cond, stack'[i].path_cond)
          ELSE PathConds(stack', state')
                  \subseteq PathConds(stack, state) \cup {<<PyTrue>>}]_vars

\* A jump has extended a path condition that an assert had extended before.
C14_Witness ==
    /\ ctl = "check"
    /\ last.ty = "JUMP"
    /\ state # None
    /\ Len(state.path_cond) = 3
    /\ state.path_cond[1] = PyTrue
    /\ state.path_cond[2].tag = "Cmp"

\* C16: a LOAD of a cell that was never written records a free integer
\* variable named after the cell as the value of the load instruction, and
\* leaves variables and path_cond as they were and the error unset.
C16_LoadUninitialized ==
    [][(/\ At("LOAD")
        /\ read(state, program[state.pc].ops[1]) = None)
       => /\ ctl' = "check"
          /\ stack' = stack
          /\ SameCounts
          /\ \/ state' = None /\ NextOf(state) = NoInstr
             \/ /\ state' # None
                /\ state'.values
                      = Put(state.values, state.pc,
                            Z3Int(program[state.pc].ops[1].v))
                /\ state'.variables = state.variables
                /\ state'.path_cond = state.path_cond
                /\ state'.error = NoError]_vars

\* The load of x has run in the entry state: instruction 1 has the value x,
\* no cell is written, and the path condition is still [True].
C16_Witness ==
    /\ ctl = "check"
    /\ last.ty = "LOAD"
    /\ state # None
    /\ state.variables = EmptyMap
    /\ DOMAIN state.values = {1}
    /\ state.values[1] = Z3Int(1)
    /\ state.path_cond = <<PyTrue>>

\* C18: every state on the worklist has a pc that is an instruction.
C18_WorklistPcNotNull ==
    \A i \in 1..Len(stack) :
        stack[i].pc # NoInstr /\ stack[i].pc \in 1..Len(program)

\* The continuation past an assert at the end of the program was counted and
\* not pushed: the stack is empty and a path is counted that is no error.
C18_Witness ==
    /\ ctl = "check"
    /\ last = [ty |-> "ASSERT", cond_check |-> "sat", not_cond_check |-> "sat"]
    /\ state # None
    /\ NextOf(state) = NoInstr
    /\ stack = <<>>
    /\ executed_paths >= 1
    /\ errors < executed_paths

JustForked ==
    last = [ty |-> "JUMP", cond_check |-> "sat", not_cond_check |-> "sat"]

\* C15: the worklist is a stack and exploration is depth-first: a pop takes
\* the state put last, every other step leaves the waiting states where they
\* are and only puts on top of them, a pop happens only once the state being
\* executed has ended or failed, and at a fork it is the then side that goes
\* on and the else side that waits.
C15_DepthFirst ==
    [][/\ (ctl = "loop" /\ stack # <<>>)
          => /\ state' = Top(stack)
             /\ stack' = SubSeq(stack, 1, Len(stack) - 1)
       /\ ctl = "loop" => (state = None \/ state.error # NoError)
       /\ ctl # "loop" => IsPrefix(stack, stack')
       /\ (ctl = "exec" /\ ctl' = "check" /\ JustForked')
          => /\ state'.pc = ThenOf(state)
             /\ Len(stack') = Len(stack) + 1
             /\ Top(stack').pc = ElseOf(state)]_vars

\* The else side of a fork is taken from the stack after the then side has
\* failed an assert and the continuation past that assert has halted.
C15_Witness ==
    /\ ctl = "exec"
    /\ last.ty = "HALT"
    /\ executed_paths = 2
    /\ errors = 1
    /\ stack = <<>>
    /\ Len(state.path_cond) = 2
    /\ state.path_cond[2].tag = "Not"

\* C17 as stated: after a jump has forked, the driver puts the then-side state
\* back on the worklist and leaves the inner loop, so that the then side goes
\* on only after it is popped again.
C17_AsStated ==
    [][(/\ ctl = "check"
        /\ JustForked
        /\ state # None)
       => /\ stack' = Append(stack, state)
          /\ ctl' = "loop"]_vars

\* C17, amended: when a jump forks, it sets no flag: it pushes the else-side
\* state and returns the then-side state, and the driver goes on executing
\* that state in the same inner loop without putting it on the worklist.
C17_ForkContinuesInPlace ==
    [][/\ (ctl = "exec" /\ ctl' = "check" /\ JustForked')
          => /\ DOMAIN state'
                  = {"pc", "variables", "values", "path_cond", "error"}
             /\ state'.pc = ThenOf(state)
             /\ Len(stack') = Len(stack) + 1
             /\ Top(stack').pc = ElseOf(state)
       /\ (ctl = "check" /\ JustForked /\ state # None)
          => /\ stack' = stack
             /\ state' = state
             /\ ctl' = "exec"
             /\ SameCounts]_vars

\* Right after a fork the driver is about to execute the then side, and only
\* the else side waits on the stack.
C17_Witness ==
    /\ ctl = "exec"
    /\ JustForked
    /\ Len(stack) = 1
    /\ Len(state.path_cond) = Len(stack[1].path_cond)
    /\ stack[1].path_cond[Len(state.path_cond)]
          = Not(state.path_cond[Len(state.path_cond)])

\* C19 as stated: with a solver that never answers unknown, run on a program
\* without cycles reaches an empty worklist and finishes: it never stops
\* before it has printed the counts, and no pushed state is left unpopped.
C19_AsStated == ENABLED Next \/ (ctl = "done" /\ stack = <<>>)

\* The identities a state holds: its own and those of its three containers.
IdSet(ids) == {ids.obj, ids.variables, ids.values, ids.path_cond}

\* The states the executor holds: those on the worklist and the local of run.
Held ==
    [i \in 1..Len(heap.stack) |-> heap.stack[i]]
        \o (IF heap.state = None THEN <<>> ELSE <<heap.state>>)

\* C12: no two of the states the executor holds (on the worklist or being
\* executed) are one object or refer to one dict or list, the state being
\* executed is not on the worklist, and a step that executes an instruction
\* on the current state (a write, a set, a fork that extends path_cond) leaves
\* the variables, values and path_cond of every state already on the worklist
\* as they were.
C12_StateIndependence ==
    /\ [](\A i \in 1..Len(Held) : \A j \in 1..Len(Held) :
             i # j => IdSet(Held[i]) \cap IdSet(Held[j]) = {})
    /\ [](Len(heap.stack) = Len(stack) /\ (heap.state = None <=> state = None))
    /\ [][ctl = "exec"
          => /\ Len(stack') >= Len(stack)
             /\ \A i \in 1..Len(stack) :
                   /\ stack'[i].variables = stack[i].variables
                   /\ stack'[i].values = stack[i].values
                   /\ stack'[i].path_cond = stack[i].path_cond]_vars

\* After a fork at a jump the then side has stored to a cell and loaded it
\* again: its variables and values have grown, the else side waits on the
\* worklist with the maps it was copied with.
C12_Witness ==
    /\ ctl = "check"
    /\ last.ty = "LOAD"
    /\ state # None
    /\ Len(stack) = 1
    /\ Len(state.path_cond) > Len(stack[1].path_cond)
    /\ stack[1].path_cond[2] = Not(state.path_cond[2])
    /\ DOMAIN state.variables # {}
    /\ DOMAIN stack[1].variables = {}
    /\ DOMAIN stack[1].values \subseteq DOMAIN state.values
    /\ DOMAIN stack[1].values # DOMAIN state.values
    /\ heap.state.values # heap.stack[1].values

====
